---- MODULE Spec2Model ----
(***************************************************************************)
(* rnn-learn (src/rnn-learn/main.c): the start-up of the trainer, from     *)
(* init_parameters through the option loop of read_options (and the        *)
(* config-file loop of read_config_file), setup_target, setup_parameters   *)
(* and check_parameters, up to the call of training_main.                  *)
(*                                                                         *)
(* C strings are sequences of one-character strings.  Values of type       *)
(* double are held in thousandths (fixed point), so 0.001 is 1.            *)
(* An unsigned long is held as ULONG_LIMBS 16-bit limbs, least significant *)
(* first.                                                                  *)
(***************************************************************************)
EXTENDS Integers, Sequences, FiniteSets, TLC

\* ------------------------------------------------------------------ bounds

\* Options and config-file lines processed in one run of Spec.
MaxOpts == 2
\* Options and config-file lines processed in one run of SpecCheck.
MaxCheckOpts == 3
\* Options and config-file lines processed in one run of SpecInterval.
MaxIntervalOpts == 2
\* Options and config-file lines processed in one run of SpecSeed.
MaxSeedOpts == 2
\* Config-file lines processed in one run of SpecConfig.
MaxConfigOpts == 2
\* Options and config-file lines processed in one run of SpecSwitch.
MaxSwitchOpts == 3

\* ------------------------------------------------------- program constants
\* The defaults that init_parameters assigns are macros of main.h, whose text
\* is not among the sources at hand: each stands here as one value that
\* check_parameters accepts (a double in thousandths).  No property below
\* depends on which accepted value it is.

EPOCH_SIZE == 1000
RHO == 1
MOMENTUM == 900
C_STATE_SIZE == 10
REP_INIT_SIZE == 1
DELAY_LENGTH == 1
OUTPUT_TYPE == 0
PRIOR_STRENGTH == 1
REP_INIT_VARIANCE == 1000
\* (LAMBDA is a reserved word of TLA+.)
LAMBDA_ == 0
ALPHA == 0
TRUNCATE_LENGTH == 0
BLOCK_LENGTH == 0
DIVIDE_NUM == 1
LYAPUNOV_SPECTRUM_SIZE == 1
THRESHOLD_PERIOD == 1
PRINT_INTERVAL == 1
\* <limits.h>; the value of a 32-bit long stands for it (it is only stored).
LONG_MAX == 2147483647

\* Fixed point scale of a double.
FSCALE == 1000
\* One limb of an unsigned long, and the number of limbs (64 bits).
LIMB == 65536
ULONG_LIMBS == 4

NULL == <<"\\0NULL">>
EMPTY == <<>>

\* ---------------------------------------------------------- C conversions

IsDigit(c) == c \in {"0", "1", "2", "3", "4", "5", "6", "7", "8", "9"}

DigitVal(c) ==
    CASE c = "0" -> 0 [] c = "1" -> 1 [] c = "2" -> 2 [] c = "3" -> 3
      [] c = "4" -> 4 [] c = "5" -> 5 [] c = "6" -> 6 [] c = "7" -> 7
      [] c = "8" -> 8 [] c = "9" -> 9

IsSpace(c) == c \in {" ", "\t", "\n"}

RECURSIVE SkipSpace(_, _)
SkipSpace(s, i) ==
    IF i <= Len(s) /\ IsSpace(s[i]) THEN SkipSpace(s, i + 1) ELSE i

\* Index after an optional sign at i.
AfterSign(s, i) ==
    IF i <= Len(s) /\ s[i] \in {"-", "+"} THEN i + 1 ELSE i

IsNegative(s, i) == i <= Len(s) /\ s[i] = "-"

RECURSIVE ParseDigits(_, _, _)
ParseDigits(s, i, acc) ==
    IF i <= Len(s) /\ IsDigit(s[i])
    THEN ParseDigits(s, i + 1, acc * 10 + DigitVal(s[i]))
    ELSE acc

RECURSIVE EndOfDigits(_, _)
EndOfDigits(s, i) ==
    IF i <= Len(s) /\ IsDigit(s[i]) THEN EndOfDigits(s, i + 1) ELSE i

\* atoi / atol: leading white space, an optional sign, the decimal digits
\* that follow; anything else ends the number (no digits: 0).
atoi(s) ==
    LET i == SkipSpace(s, 1)
        j == AfterSign(s, i)
        v == ParseDigits(s, j, 0)
    IN  IF IsNegative(s, i) THEN 0 - v ELSE v

atol(s) == atoi(s)

\* The first three digits of the fraction that starts at i, in thousandths.
FracDigit(s, i, w) ==
    IF i <= Len(s) /\ IsDigit(s[i]) THEN DigitVal(s[i]) * w ELSE 0

Fraction(s, i) ==
    IF i <= Len(s) /\ s[i] = "."
    THEN LET e == EndOfDigits(s, i + 1)
         IN  (IF i + 1 < e THEN FracDigit(s, i + 1, 100) ELSE 0)
             + (IF i + 2 < e THEN FracDigit(s, i + 2, 10) ELSE 0)
             + (IF i + 3 < e THEN FracDigit(s, i + 3, 1) ELSE 0)
    ELSE 0

\* atof, in thousandths (decimal notation; truncated after three places).
atof(s) ==
    LET i == SkipSpace(s, 1)
        j == AfterSign(s, i)
        k == EndOfDigits(s, j)
        v == ParseDigits(s, j, 0) * FSCALE + Fraction(s, k)
    IN  IF IsNegative(s, i) THEN 0 - v ELSE v

\* --- unsigned long arithmetic on limbs

ULONG_ZERO == [i \in 1..ULONG_LIMBS |-> 0]
ULONG_MAX == [i \in 1..ULONG_LIMBS |-> LIMB - 1]

\* The carry into limb i of x * m + a.
RECURSIVE CarryIn(_, _, _, _)
CarryIn(x, m, a, i) ==
    IF i = 1 THEN a ELSE (x[i - 1] * m + CarryIn(x, m, a, i - 1)) \div LIMB

MulAdd(x, m, a) ==
    [i \in 1..ULONG_LIMBS |-> (x[i] * m + CarryIn(x, m, a, i)) % LIMB]

Overflows(x, m, a) == CarryIn(x, m, a, ULONG_LIMBS + 1) > 0

\* Two's complement negation (unsigned).
Negate(x) == MulAdd([i \in 1..ULONG_LIMBS |-> LIMB - 1 - x[i]], 1, 1)

\* [val, ovf] of the decimal digits of s from i, accumulated onto acc.
RECURSIVE ParseULong(_, _, _, _)
ParseULong(s, i, acc, ovf) ==
    IF i <= Len(s) /\ IsDigit(s[i])
    THEN ParseULong(s, i + 1, MulAdd(acc, 10, DigitVal(s[i])),
                    ovf \/ Overflows(acc, 10, DigitVal(s[i])))
    ELSE [val |-> acc, ovf |-> ovf]

\* strtoul(s, NULL, 0) on decimal input: the value is negated (as unsigned)
\* after a minus sign, and is ULONG_MAX when the digits do not fit.
strtoul(s) ==
    LET i == SkipSpace(s, 1)
        j == AfterSign(s, i)
        r == ParseULong(s, j, ULONG_ZERO, FALSE)
    IN  IF r.ovf THEN ULONG_MAX
        ELSE IF IsNegative(s, i) THEN Negate(r.val)
        ELSE r.val

IsZero(x) == \A i \in 1..ULONG_LIMBS : x[i] = 0

strlen(s) == Len(s)

\* strpbrk(s, accept) and strchr(s, c): the index of the first character of
\* s that is in accept, from i on; 0 when there is none.
RECURSIVE strpbrk(_, _, _)
strpbrk(s, accept, i) ==
    IF i > Len(s) THEN 0
    ELSE IF s[i] \in accept THEN i
    ELSE strpbrk(s, accept, i + 1)

strchr(s, c) == strpbrk(s, {c}, 1)

\* The index of the first character from i on that is not c (Len(s) + 1
\* when all are), and of the last one up to i that is not c (0 when all are).
RECURSIVE FirstNot(_, _, _)
FirstNot(s, c, i) ==
    IF i <= Len(s) /\ s[i] = c THEN FirstNot(s, c, i + 1) ELSE i

RECURSIVE LastNot(_, _, _)
LastNot(s, c, i) ==
    IF i >= 1 /\ s[i] = c THEN LastNot(s, c, i - 1) ELSE i

\* strip(str, c): NULL for NULL; otherwise str without the characters c at
\* its start and at its end.
strip(str, c) ==
    IF str = NULL THEN NULL
    ELSE LET rest == SubSeq(str, FirstNot(str, c, 1), Len(str))
         IN  SubSeq(rest, 1, LastNot(rest, c, Len(rest)))

\* parse_option_and_arg(str, &opt, &arg): the line is cut at the first '#'
\* or newline; a line that is then empty gives NULL twice; otherwise opt is
\* what stands before the first '=' (all of it without one) and arg what
\* stands after it (NULL without one), both stripped of spaces.
parse_option_and_arg(str) ==
    LET cut == strpbrk(str, {"#", "\n"}, 1)
        body == IF cut = 0 THEN str ELSE SubSeq(str, 1, cut - 1)
        eq == strchr(body, "=")
    IN  IF strlen(body) > 0
        THEN IF eq # 0
             THEN [opt |-> strip(SubSeq(body, 1, eq - 1), " "),
                   arg |-> strip(SubSeq(body, eq + 1, Len(body)), " ")]
             ELSE [opt |-> strip(body, " "), arg |-> strip(NULL, " ")]
        ELSE [opt |-> NULL, arg |-> NULL]

\* ------------------------------------------------------------------ state

\* The output streams that have a print_interval of their own.
Streams ==
    {"state_file", "closed_state_file", "weight_file", "threshold_file",
     "tau_file", "init_file", "rep_init_file", "adapt_lr_file", "error_file",
     "closed_error_file", "lyapunov_file", "entropy_file", "period_file"}

\* The value fields of struct print_interval; flag[f] is its _set_<f>_flag.
Fields == {"interval", "init", "end", "use_logscale_interval"}

VARIABLES
    pc,        \* where main is: the function about to run, "exit" or "done"
    nopts,     \* options and config-file lines processed so far
    gp,        \* struct general_parameters: mp, ap, iop, inp
    t_reader,  \* struct target_reader: num, dimension
    io,        \* what was read: argv's operands, the files read, stdin,
               \* and the last config-file line where lines come as text
    status,    \* the exit status, the message printed, the function exiting
    hist,      \* per stream and field: the last per-stream setting, if any
    run        \* the inputs of this run: which command lines and files it has

vars == <<pc, nopts, gp, t_reader, io, status, hist, run>>

\* ---------------------------------------------------------- init_parameters

\* (time(NULL) * getpid()) as unsigned long: one value of the clock and pid.
TimePidProducts == {<<54321, 4660, 7, 0>>}

\* More values of the product, for the runs that are about the seed: the
\* one above, 2^32 - 2 (the largest remainder), 2^32 - 1 (remainder 0),
\* 2^32 + 1, and a product that fills all 64 bits.
SeedTimePidProducts ==
    TimePidProducts
    \cup {<<LIMB - 2, LIMB - 1, 0, 0>>, <<LIMB - 1, LIMB - 1, 0, 0>>,
          <<1, 0, 1, 0>>, <<LIMB - 1, LIMB - 1, LIMB - 1, LIMB - 1>>}

TimePidProductsOf(r) ==
    IF r = "seed" THEN SeedTimePidProducts ELSE TimePidProducts

\* ((x % 4294967295) + 1): 2^32 = 1 modulo 2^32 - 1, so the two halves of x
\* are added, the carry is folded back in, and 2^32 - 1 itself is 0.
InitSeed(x) ==
    LET s0 == x[1] + x[3]
        s1 == x[2] + x[4] + (s0 \div LIMB)
        folded == <<s0 % LIMB, s1 % LIMB, 0, 0>>
        r == IF s1 \div LIMB = 1 THEN MulAdd(folded, 1, 1) ELSE folded
        m == IF r = <<LIMB - 1, LIMB - 1, 0, 0>> THEN ULONG_ZERO ELSE r
    IN  MulAdd(m, 1, 1)

default_interval ==
    [val |-> [f \in Fields |->
                CASE f = "interval" -> PRINT_INTERVAL
                  [] f = "init" -> 0
                  [] f = "end" -> LONG_MAX
                  [] f = "use_logscale_interval" -> 0],
     flag |-> [f \in Fields |-> 0]]

init_parameters(x) ==
    [mp |-> [seed |-> InitSeed(x),
             epoch_size |-> EPOCH_SIZE,
             use_adaptive_lr |-> 0,
             rho |-> RHO,
             momentum |-> MOMENTUM,
             c_state_size |-> C_STATE_SIZE,
             rep_init_size |-> REP_INIT_SIZE,
             delay_length |-> DELAY_LENGTH,
             output_type |-> OUTPUT_TYPE,
             fixed_weight |-> 0,
             fixed_threshold |-> 0,
             fixed_tau |-> 0,
             fixed_init_c_state |-> 0,
             connection_i2c |-> <<"-", "t", "-">>,
             connection_c2c |-> <<"-", "t", "-">>,
             connection_c2o |-> <<"-", "t", "-">>,
             connection_c2v |-> <<"-", "t", "-">>,
             const_init_c |-> EMPTY,
             softmax_group |-> EMPTY,
             init_tau |-> <<"1", ".", "0">>,
             prior_strength |-> PRIOR_STRENGTH,
             rep_init_variance |-> REP_INIT_VARIANCE,
             lambda |-> LAMBDA_,
             alpha |-> ALPHA],
     ap |-> [truncate_length |-> TRUNCATE_LENGTH,
             block_length |-> BLOCK_LENGTH,
             divide_num |-> DIVIDE_NUM,
             lyapunov_spectrum_size |-> LYAPUNOV_SPECTRUM_SIZE,
             threshold_period |-> THRESHOLD_PERIOD],
     iop |-> [save_filename |-> <<"r", "n", "n">>,
              load_filename |-> EMPTY,
              default_interval |-> default_interval,
              interval_for |-> [s \in Streams |-> default_interval],
              verbose |-> 0],
     \* inp is not initialised by init_parameters; built says whether
     \* setup_parameters has made the arrays, rows is the row count it used.
     inp |-> [adapt_lr |-> 0, init_epoch |-> 0, built |-> FALSE, rows |-> 0]]

InitOf(r) ==
    /\ run = r
    /\ pc = "read_options"
    /\ nopts = 0
    /\ \E x \in TimePidProductsOf(r) : gp = init_parameters(x)
    /\ t_reader = [num |-> 0, dimension |-> 0]
    /\ io = [targets |-> <<>>, files_read |-> <<>>, stdin_read |-> FALSE,
             config_line |-> NULL]
    /\ status = [code |-> "running", msg |-> "", at |-> ""]
    /\ hist = [s \in Streams |-> [f \in Fields |-> [set |-> FALSE, arg |-> NULL]]]

\* ------------------------------------------------------------------ setters

set_seed(opt, g) == [g EXCEPT !.mp.seed = strtoul(opt)]
set_epoch_size(opt, g) == [g EXCEPT !.mp.epoch_size = atol(opt)]
set_use_adaptive_lr(opt, g) == [g EXCEPT !.mp.use_adaptive_lr = 1]
set_rho(opt, g) == [g EXCEPT !.mp.rho = atof(opt)]
set_momentum(opt, g) == [g EXCEPT !.mp.momentum = atof(opt)]
set_c_state_size(opt, g) == [g EXCEPT !.mp.c_state_size = atoi(opt)]
set_rep_init_size(opt, g) == [g EXCEPT !.mp.rep_init_size = atoi(opt)]
set_delay_length(opt, g) == [g EXCEPT !.mp.delay_length = atoi(opt)]
set_output_type(opt, g) == [g EXCEPT !.mp.output_type = atoi(opt)]
set_fixed_weight(opt, g) == [g EXCEPT !.mp.fixed_weight = 1]
set_fixed_threshold(opt, g) == [g EXCEPT !.mp.fixed_threshold = 1]
set_fixed_tau(opt, g) == [g EXCEPT !.mp.fixed_tau = 1]
set_fixed_init_c_state(opt, g) == [g EXCEPT !.mp.fixed_init_c_state = 1]
set_connection_i2c(opt, g) == [g EXCEPT !.mp.connection_i2c = opt]
set_connection_c2c(opt, g) == [g EXCEPT !.mp.connection_c2c = opt]
set_connection_c2o(opt, g) == [g EXCEPT !.mp.connection_c2o = opt]
set_connection_c2v(opt, g) == [g EXCEPT !.mp.connection_c2v = opt]
set_const_init_c(opt, g) == [g EXCEPT !.mp.const_init_c = opt]
set_softmax_group(opt, g) == [g EXCEPT !.mp.softmax_group = opt]
set_init_tau(opt, g) == [g EXCEPT !.mp.init_tau = opt]
set_prior_strength(opt, g) == [g EXCEPT !.mp.prior_strength = atof(opt)]
set_rep_init_variance(opt, g) == [g EXCEPT !.mp.rep_init_variance = atof(opt)]
set_lambda(opt, g) == [g EXCEPT !.mp.lambda = atof(opt)]
set_alpha(opt, g) == [g EXCEPT !.mp.alpha = atof(opt)]
set_truncate_length(opt, g) == [g EXCEPT !.ap.truncate_length = atoi(opt)]
set_block_length(opt, g) == [g EXCEPT !.ap.block_length = atoi(opt)]
set_divide_num(opt, g) == [g EXCEPT !.ap.divide_num = atoi(opt)]
set_lyapunov_spectrum_size(opt, g) ==
    [g EXCEPT !.ap.lyapunov_spectrum_size = atoi(opt)]
set_threshold_period(opt, g) == [g EXCEPT !.ap.threshold_period = atof(opt)]
set_save_file(opt, g) == [g EXCEPT !.iop.save_filename = opt]
set_load_file(opt, g) == [g EXCEPT !.iop.load_filename = opt]
set_verbose(opt, g) == [g EXCEPT !.iop.verbose = 1]

\* (mutant) the default's OPT is copied to every stream, flag or not.
SET_DEFAULT_VALUE_IgnoresFlag(OPT, g) ==
    [g EXCEPT !.iop.interval_for =
        [s \in Streams |->
            [g.iop.interval_for[s] EXCEPT
                !.val[OPT] = g.iop.default_interval.val[OPT]]]]

\* SET_DEFAULT_VALUE_OF_PRINT_INTERVAL(OPT): every stream whose _set_OPT_flag
\* is clear takes the default's OPT.
SET_DEFAULT_VALUE_OF_PRINT_INTERVAL(OPT, g) ==
    [g EXCEPT !.iop.interval_for =
        [s \in Streams |->
            IF g.iop.interval_for[s].flag[OPT] = 0
            THEN [g.iop.interval_for[s] EXCEPT
                      !.val[OPT] = g.iop.default_interval.val[OPT]]
            ELSE g.iop.interval_for[s]]]

set_print_interval(opt, g) ==
    SET_DEFAULT_VALUE_OF_PRINT_INTERVAL("interval",
        [g EXCEPT !.iop.default_interval.val["interval"] = atol(opt)])

set_print_init(opt, g) ==
    SET_DEFAULT_VALUE_OF_PRINT_INTERVAL("init",
        [g EXCEPT !.iop.default_interval.val["init"] = atol(opt)])

set_print_end(opt, g) ==
    SET_DEFAULT_VALUE_OF_PRINT_INTERVAL("end",
        [g EXCEPT !.iop.default_interval.val["end"] = atol(opt)])

set_use_logscale_interval(opt, g) ==
    SET_DEFAULT_VALUE_OF_PRINT_INTERVAL("use_logscale_interval",
        [g EXCEPT !.iop.default_interval.val["use_logscale_interval"] = 1])

\* The field a per-stream option <NAME>_for_<FILENAME> sets.
FieldOf(NAME) ==
    CASE NAME = "print_interval" -> "interval"
      [] NAME = "print_init" -> "init"
      [] NAME = "print_end" -> "end"
      [] NAME = "use_logscale_interval" -> "use_logscale_interval"

\* (mutant) use_logscale_interval_for_<FILENAME> stores its argument.
ValueIn_FromArgument(NAME, opt) == atol(opt)

\* The value IN it is given: atol(opt), or 1 for use_logscale_interval.
ValueIn(NAME, opt) ==
    IF NAME = "use_logscale_interval" THEN 1 ELSE atol(opt)

\* GEN_PRINT_INTERVAL_SETTER_I: set_<NAME>_for_<FILENAME>.
GEN_PRINT_INTERVAL_SETTER(FILENAME, NAME, opt, g) ==
    [g EXCEPT !.iop.interval_for[FILENAME].val[FieldOf(NAME)] =
                  ValueIn(NAME, opt),
              !.iop.interval_for[FILENAME].flag[FieldOf(NAME)] = 1]

\* ------------------------------------------------------------------ opt_info

\* The options of opt_info that take an argument (has_arg = 1) ...
HasArgNames ==
    {"seed", "epoch_size", "rho", "momentum", "c_state_size", "rep_init_size",
     "delay_length", "output_type", "connection_i2c", "connection_c2c",
     "connection_c2o", "connection_c2v", "const_init_c", "softmax_group",
     "init_tau", "prior_strength", "rep_init_variance", "lambda", "alpha",
     "truncate_length", "block_length", "divide_num",
     "lyapunov_spectrum_size", "threshold_period", "save_file", "load_file",
     "print_interval", "print_init", "print_end"}

\* ... and those that take none (has_arg = 0).
NoArgNames ==
    {"use_adaptive_lr", "fixed_weight", "fixed_threshold", "fixed_tau",
     "fixed_init_c_state", "use_logscale_interval", "verbose"}

\* The names of opt_info that are modelled: not the thirteen <stream>_file
\* names (a file name each, read by no check) nor config_file (a config file
\* read from within a config file).  The per-stream options follow below.
OptNames == HasArgNames \cup NoArgNames

\* opt_info[i].setter(arg, gp) for the entry named name.
Setter(name, arg, g) ==
    CASE name = "seed" -> set_seed(arg, g)
      [] name = "epoch_size" -> set_epoch_size(arg, g)
      [] name = "use_adaptive_lr" -> set_use_adaptive_lr(arg, g)
      [] name = "rho" -> set_rho(arg, g)
      [] name = "momentum" -> set_momentum(arg, g)
      [] name = "c_state_size" -> set_c_state_size(arg, g)
      [] name = "rep_init_size" -> set_rep_init_size(arg, g)
      [] name = "delay_length" -> set_delay_length(arg, g)
      [] name = "output_type" -> set_output_type(arg, g)
      [] name = "fixed_weight" -> set_fixed_weight(arg, g)
      [] name = "fixed_threshold" -> set_fixed_threshold(arg, g)
      [] name = "fixed_tau" -> set_fixed_tau(arg, g)
      [] name = "fixed_init_c_state" -> set_fixed_init_c_state(arg, g)
      [] name = "connection_i2c" -> set_connection_i2c(arg, g)
      [] name = "connection_c2c" -> set_connection_c2c(arg, g)
      [] name = "connection_c2o" -> set_connection_c2o(arg, g)
      [] name = "connection_c2v" -> set_connection_c2v(arg, g)
      [] name = "const_init_c" -> set_const_init_c(arg, g)
      [] name = "softmax_group" -> set_softmax_group(arg, g)
      [] name = "init_tau" -> set_init_tau(arg, g)
      [] name = "prior_strength" -> set_prior_strength(arg, g)
      [] name = "rep_init_variance" -> set_rep_init_variance(arg, g)
      [] name = "lambda" -> set_lambda(arg, g)
      [] name = "alpha" -> set_alpha(arg, g)
      [] name = "truncate_length" -> set_truncate_length(arg, g)
      [] name = "block_length" -> set_block_length(arg, g)
      [] name = "divide_num" -> set_divide_num(arg, g)
      [] name = "lyapunov_spectrum_size" -> set_lyapunov_spectrum_size(arg, g)
      [] name = "threshold_period" -> set_threshold_period(arg, g)
      [] name = "save_file" -> set_save_file(arg, g)
      [] name = "load_file" -> set_load_file(arg, g)
      [] name = "print_interval" -> set_print_interval(arg, g)
      [] name = "print_init" -> set_print_init(arg, g)
      [] name = "print_end" -> set_print_end(arg, g)
      [] name = "use_logscale_interval" -> set_use_logscale_interval(arg, g)
      [] name = "verbose" -> set_verbose(arg, g)

\* ENTRY_PRINT_INTERVAL_SETTER: the per-stream names and their has_arg.
StreamOptNames ==
    {"print_interval", "print_init", "print_end", "use_logscale_interval"}

StreamOptHasArg(NAME) == NAME # "use_logscale_interval"

\* ------------------------------------------------------------------ inputs

\* Option arguments, as typed.
A_m1 == <<"-", "1">>
A_0 == <<"0">>
A_1 == <<"1">>
A_2 == <<"2">>
A_3 == <<"3">>
A_file == <<"p", "r", "e", "v">>
NumArgs == {A_m1, A_0, A_1}

\* Arguments of -s / seed: 2^32 - 1, 2^32, 2^64 - 1 and 2^64 besides the
\* small ones.
A_2p32m1 == <<"4", "2", "9", "4", "9", "6", "7", "2", "9", "5">>
A_2p32 == <<"4", "2", "9", "4", "9", "6", "7", "2", "9", "6">>
A_2p64m1 == <<"1", "8", "4", "4", "6", "7", "4", "4", "0", "7", "3", "7",
              "0", "9", "5", "5", "1", "6", "1", "5">>
A_2p64 == <<"1", "8", "4", "4", "6", "7", "4", "4", "0", "7", "3", "7",
            "0", "9", "5", "5", "1", "6", "1", "6">>
SeedArgs == NumArgs \cup {A_2p32m1, A_2p32, A_2p64m1, A_2p64}

\* The option letters of the getopt string, and "?" (what getopt returns for
\* a letter that is not in it, or for a missing argument).
OptString == {"s", "n", "r", "t", "d", "k", "e", "l", "x", "m", "a", "p",
              "f", "i", "o", "c", "V", "v", "h"}
Letters == OptString \cup {"?"}

\* A line of a config file after parse_option_and_arg: the option name, the
\* stream of a per-stream option <name>_for_<for> ("" otherwise), and the
\* argument (NULL when the line has no '=').
Line(name, for, arg) == [name |-> name, for |-> for, arg |-> arg]

\* Lines of a config file as getline returns them, newline included.
ConfigTexts ==
    {
     \* `rho'
     <<"r", "h", "o", "\n">>,
     \* `rho ='
     <<"r", "h", "o", " ", "=", "\n">>,
     \* `rho = # 0.1'
     <<"r", "h", "o", " ", "=", " ", "#", " ", "0", ".", "1", "\n">>,
     \* ` rho = 2 '
     <<" ", "r", "h", "o", " ", "=", " ", "2", " ", "\n">>,
     \* `seed='
     <<"s", "e", "e", "d", "=", "\n">>,
     \* `load_file ='
     <<"l", "o", "a", "d", "_", "f", "i", "l", "e", " ", "=", "\n">>,
     \* `print_init_for_state_file'
     <<"p", "r", "i", "n", "t", "_", "i", "n", "i", "t", "_", "f", "o",
       "r", "_", "s", "t", "a", "t", "e", "_", "f", "i", "l", "e", "\n">>,
     \* `print_init_for_state_file = '
     <<"p", "r", "i", "n", "t", "_", "i", "n", "i", "t", "_", "f", "o",
       "r", "_", "s", "t", "a", "t", "e", "_", "f", "i", "l", "e", " ",
       "=", " ", "\n">>,
     \* `fixed_tau'
     <<"f", "i", "x", "e", "d", "_", "t", "a", "u", "\n">>,
     \* `# rho = 2'
     <<"#", " ", "r", "h", "o", " ", "=", " ", "2", "\n">>,
     \* `'
     <<"\n">>,
     \* `  '
     <<" ", " ", "\n">>,
     \* `= 2'
     <<"=", " ", "2", "\n">>,
     \* `bogus = 1'
     <<"b", "o", "g", "u", "s", " ", "=", " ", "1", "\n">>
    }

\* The names of opt_info that these lines use, as strcmp sees them.
Spelled ==
    {[name |-> "rho", for |-> "",
      text |-> <<"r", "h", "o">>],
     [name |-> "seed", for |-> "",
      text |-> <<"s", "e", "e", "d">>],
     [name |-> "load_file", for |-> "",
      text |-> <<"l", "o", "a", "d", "_", "f", "i", "l", "e">>],
     [name |-> "fixed_tau", for |-> "",
      text |-> <<"f", "i", "x", "e", "d", "_", "t", "a", "u">>],
     [name |-> "print_init", for |-> "state_file",
      text |-> <<"p", "r", "i", "n", "t", "_", "i", "n", "i", "t", "_", "f",
                "o", "r", "_", "s", "t", "a", "t", "e", "_", "f", "i", "l",
                "e">>]}

\* The line that a text is, once parsed: name "" when opt is NULL or empty
\* (the line is passed over), "no_such_option" when strcmp matches no name.
LineOf(text) ==
    LET p == parse_option_and_arg(text)
    IN  IF p.opt = NULL \/ strlen(p.opt) = 0 THEN Line("", "", p.arg)
        ELSE IF \E e \in Spelled : e.text = p.opt
        THEN LET e == CHOOSE e \in Spelled : e.text = p.opt
             IN  Line(e.name, e.for, p.arg)
        ELSE Line("no_such_option", "", p.arg)

\* The files of this machine: what fopen and read_target_from_file give.
\* NOFILE: fopen fails.  -1: read_target_from_file fails.  n >= 0: the file
\* holds n time series.
NOFILE == -2

ReadResultOf(file) ==
    CASE file = "a.dat" -> 1
      [] file = "b.dat" -> 1
      [] file = "empty.dat" -> 0
      [] file = "bad.dat" -> -1
      [] file = "missing.dat" -> NOFILE

\* What a run can be given; run names the family of runs a specification
\* explores.
\*   "main":     every option letter, a few config-file lines, many targets
\*   "check":    every option that check_parameters reads, simple targets
\*   "interval": the print interval options, global and per stream
\*   "seed":     -s and the seed option, with many clocks and pids
\*   "config":   config files whose lines are given as text
\*   "switch":   the options without an argument, global and per stream
BoundOf(r) ==
    CASE r = "main" -> MaxOpts
      [] r = "check" -> MaxCheckOpts
      [] r = "interval" -> MaxIntervalOpts
      [] r = "seed" -> MaxSeedOpts
      [] r = "config" -> MaxConfigOpts
      [] r = "switch" -> MaxSwitchOpts

LettersOf(r) ==
    CASE r = "main" -> Letters
      [] r = "check" -> {"c", "i"}
      [] r = "interval" -> {"c", "l"}
      [] r = "seed" -> {"c", "s"}
      [] r = "config" -> {"c"}
      [] r = "switch" -> {"c", "a", "V"}

\* optarg for letter c.
OptargsOf(r, c) ==
    CASE c = "s" -> IF r = "seed" THEN SeedArgs ELSE NumArgs
      [] c \in {"n", "r", "d", "k", "e", "x", "m", "p"} -> NumArgs
      [] c = "t" -> {A_0}
      [] c = "l" -> {A_2}
      [] c \in {"i", "o", "c", "f"} -> {A_file}
      [] OTHER -> {NULL}

CheckedNames ==
    {"seed", "rho", "momentum", "c_state_size", "rep_init_size",
     "delay_length", "output_type", "prior_strength", "rep_init_variance",
     "lambda", "alpha", "truncate_length", "block_length", "divide_num"}

LinesOf(r) ==
    CASE r = "main" ->
            {Line(n, "", a) : n \in {"rep_init_variance", "threshold_period",
                                     "lyapunov_spectrum_size"},
                              a \in {A_m1, A_0}}
            \cup {Line("load_file", "", A_file), Line("load_file", "", EMPTY),
                  Line("fixed_tau", "", NULL), Line("rho", "", NULL),
                  Line("no_such_option", "", A_1),
                  Line("print_init", "state_file", A_1)}
      [] r = "check" ->
            {Line(n, "", a) : n \in CheckedNames, a \in NumArgs}
            \cup {Line("print_end", "error_file", A_1)}
      [] r = "interval" ->
            {Line(n, "", A_3) : n \in {"print_interval", "print_init",
                                       "print_end", "use_logscale_interval"}}
            \cup {Line(n, f, A_1) : n \in StreamOptNames, f \in Streams}
            \cup {Line("print_interval", f, A_2) : f \in Streams}
      [] r = "seed" ->
            {Line("seed", "", a) : a \in SeedArgs}
            \cup {Line("seed", "", NULL)}
      [] r = "config" -> {LineOf(text) : text \in ConfigTexts}
      [] r = "switch" ->
            {Line(n, "", NULL) : n \in NoArgNames}
            \cup {Line("use_logscale_interval", f, NULL) : f \in Streams}
            \cup {Line("use_logscale_interval", f, A_0) :
                      f \in {"state_file", "error_file"}}
            \cup {Line("fixed_weight", "", A_0),
                  Line("print_interval", "", A_2)}

\* What getline and parse_option_and_arg give for one line of the config
\* file: the text of the line (NULL where the lines of a run are given as
\* parsed already) and the line it is.
getline(r) ==
    IF r = "config"
    THEN {[text |-> text, line |-> LineOf(text)] : text \in ConfigTexts}
    ELSE {[text |-> NULL, line |-> line] : line \in LinesOf(r)}

\* argv's operands (the target files), in command-line order.
TargetListsOf(r) ==
    CASE r = "main" -> {<<>>, <<"a.dat", "b.dat">>, <<"b.dat", "a.dat">>,
                        <<"empty.dat">>, <<"a.dat", "missing.dat">>,
                        <<"bad.dat", "a.dat">>}
      [] r = "check" -> {<<>>, <<"a.dat">>}
      [] r = "interval" -> {<<"a.dat">>}
      [] r = "seed" -> {<<"a.dat">>}
      [] r = "config" -> {<<"a.dat">>}
      [] r = "switch" -> {<<"a.dat">>}

\* What read_target_from_file gives on the standard input.
StdinResultsOf(r) == IF r = "main" THEN {-1, 0, 1} ELSE {0}

\* ------------------------------------------------------------------ exit

\* exit(code), or main's return: the run ends at function at, having printed
\* msg last.
Exit(code, msg, at) ==
    /\ pc' = "exit"
    /\ status' = [code |-> code, msg |-> msg, at |-> at]

\* ------------------------------------------------------------- read_options

\* The setter that read_options calls for option letter c.
OptionSetter(c, optarg, g) ==
    CASE c = "s" -> set_seed(optarg, g)
      [] c = "n" -> set_c_state_size(optarg, g)
      [] c = "r" -> set_rep_init_size(optarg, g)
      [] c = "t" -> set_init_tau(optarg, g)
      [] c = "d" -> set_delay_length(optarg, g)
      [] c = "k" -> set_output_type(optarg, g)
      [] c = "e" -> set_epoch_size(optarg, g)
      [] c = "l" -> set_print_interval(optarg, g)
      [] c = "x" -> set_rho(optarg, g)
      [] c = "m" -> set_momentum(optarg, g)
      [] c = "a" -> set_use_adaptive_lr(NULL, g)
      [] c = "p" -> set_prior_strength(optarg, g)
      [] c = "i" -> set_load_file(optarg, g)
      [] c = "o" -> set_save_file(optarg, g)
      [] c = "V" -> set_verbose(NULL, g)

SetterLetters ==
    {"s", "n", "r", "t", "d", "k", "e", "l", "x", "m", "a", "p", "i", "o", "V"}

\* (mutant) case 'v' without its exit: the version is printed and the
\* option loop goes on.
OnVersion_NoExit ==
    /\ pc' = pc
    /\ status' = [code |-> "running", msg |-> "rnn-learn version",
                  at |-> "read_options"]

\* case 'v': display_version(); exit(EXIT_SUCCESS);
OnVersion == Exit("EXIT_SUCCESS", "rnn-learn version", "read_options")

\* case 'h': display_help(); exit(EXIT_SUCCESS);
OnHelp == Exit("EXIT_SUCCESS", "rnn-learn  - an implementation", "read_options")

\* default: the letter 'f' (in the getopt string, in no case) and '?'.
OnDefault ==
    Exit("EXIT_SUCCESS", "Try `rnn-learn -h' for more information.",
         "read_options")

\* set_config_file when fopen fails.
OnCannotOpenConfig == Exit("EXIT_FAILURE", "cannot open", "set_config_file")

\* One turn of the getopt loop: getopt returns letter c with optarg.
read_options ==
    /\ pc = "read_options"
    /\ nopts < BoundOf(run)
    /\ \E c \in LettersOf(run) : \E optarg \in OptargsOf(run, c) :
        /\ nopts' = IF c = "c" THEN nopts ELSE nopts + 1
        /\ IF c \in SetterLetters
           THEN /\ gp' = OptionSetter(c, optarg, gp)
                /\ UNCHANGED <<pc, status>>
           ELSE IF c = "c"
           THEN /\ \E opened \in BOOLEAN :
                     IF opened
                     THEN pc' = "read_config_file" /\ UNCHANGED status
                     ELSE OnCannotOpenConfig
                /\ UNCHANGED gp
           ELSE IF c = "v" THEN OnVersion /\ UNCHANGED gp
           ELSE IF c = "h" THEN OnHelp /\ UNCHANGED gp
           ELSE OnDefault /\ UNCHANGED gp
    /\ UNCHANGED <<t_reader, io, hist, run>>

\* --------------------------------------------------------- read_config_file

IsKnown(line) ==
    IF line.for = "" THEN line.name \in OptNames
    ELSE line.name \in StreamOptNames /\ line.for \in Streams

LineHasArg(line) ==
    IF line.for = "" THEN line.name \in HasArgNames
    ELSE StreamOptHasArg(line.name)

M_unknown_option == "warning: unknown option"
M_requires_argument == "warning: option requires an argument"

LineSetter(line, g) ==
    IF line.for = "" THEN Setter(line.name, line.arg, g)
    ELSE GEN_PRINT_INTERVAL_SETTER(line.for, line.name, line.arg, g)

\* One turn of the getline loop: a line that names an option.
read_config_file ==
    /\ pc = "read_config_file"
    /\ nopts < BoundOf(run)
    /\ \E read \in getline(run) :
        LET line == read.line
        IN  /\ nopts' = nopts + 1
            /\ io' = [io EXCEPT !.config_line = read.text]
            /\ IF line.name = ""
               THEN UNCHANGED <<gp, hist, status>>
               ELSE IF ~IsKnown(line)
               THEN /\ status' = [status EXCEPT !.msg = M_unknown_option]
                    /\ UNCHANGED <<gp, hist>>
               ELSE IF LineHasArg(line) /\ line.arg = NULL
               THEN /\ status' = [status EXCEPT !.msg = M_requires_argument]
                    /\ UNCHANGED <<gp, hist>>
               ELSE /\ gp' = LineSetter(line, gp)
                    /\ hist' = IF line.for = "" THEN hist
                               ELSE [hist EXCEPT
                                        ![line.for][FieldOf(line.name)] =
                                            [set |-> TRUE, arg |-> line.arg]]
                    /\ UNCHANGED status
    /\ UNCHANGED <<pc, t_reader, run>>

\* getline returns -1: back in set_config_file, and in the getopt loop.
read_config_file_eof ==
    /\ pc = "read_config_file"
    /\ pc' = "read_options"
    /\ UNCHANGED <<nopts, gp, t_reader, io, status, hist, run>>

\* -------------------------------------------------------------- setup_target

\* read_target_from_file adds the n time series of a file to the reader.
AddSeries(t, n) ==
    [num |-> t.num + n, dimension |-> IF t.num + n > 0 THEN 1 ELSE 0]

\* The for loop over argv[optind..argc-1], from index i:
\* [t: the reader, read: the files given to read_target_from_file,
\*  msg: "" or the message of the failure that ended the loop].
RECURSIVE ReadTargets(_, _, _, _)
ReadTargets(targets, i, t, read) ==
    IF i > Len(targets) THEN [t |-> t, read |-> read, msg |-> ""]
    ELSE LET r == ReadResultOf(targets[i])
         IN  IF r = NOFILE
             THEN [t |-> t, read |-> read, msg |-> "cannot open"]
             ELSE IF r = -1
             THEN [t |-> t, read |-> Append(read, targets[i]),
                   msg |-> "error in"]
             ELSE ReadTargets(targets, i + 1, AddSeries(t, r),
                              Append(read, targets[i]))

\* (mutant) the standard input is read whenever no target is named.
ReadsStdin_IgnoresLoadFile(targets, g) == Len(targets) = 0

\* The condition under which the standard input is the training data.
ReadsStdin(targets, g) == Len(targets) = 0 /\ strlen(g.iop.load_filename) = 0

\* getopt has returned -1 and main calls setup_target; targets are argv's
\* operands.
setup_target ==
    /\ pc = "read_options"
    /\ \E targets \in TargetListsOf(run) :
        IF ReadsStdin(targets, gp)
        THEN \E r \in StdinResultsOf(run) :
                /\ io' = [targets |-> targets, files_read |-> <<>>,
                          stdin_read |-> TRUE,
                          config_line |-> io.config_line]
                /\ IF r = -1
                   THEN /\ Exit("EXIT_FAILURE", "error in the standard input",
                                "setup_target")
                        /\ t_reader' = [num |-> 0, dimension |-> 0]
                   ELSE /\ t_reader' = AddSeries([num |-> 0, dimension |-> 0], r)
                        /\ pc' = "setup_parameters"
                        /\ UNCHANGED status
        ELSE LET res == ReadTargets(targets, 1, [num |-> 0, dimension |-> 0],
                                    <<>>)
             IN  /\ io' = [targets |-> targets, files_read |-> res.read,
                           stdin_read |-> FALSE,
                           config_line |-> io.config_line]
                 /\ t_reader' = res.t
                 /\ IF res.msg # ""
                    THEN Exit("EXIT_FAILURE", res.msg, "setup_target")
                    ELSE pc' = "setup_parameters" /\ UNCHANGED status
    /\ UNCHANGED <<nopts, gp, hist, run>>

\* ---------------------------------------------------------- setup_parameters

\* Whether the arrays are allocated and the option strings parsed.
BuildsArrays(g, t) == strlen(g.iop.load_filename) = 0 /\ t.num # 0

\* MALLOC2(ptr, c_state_size, ...) and MALLOC(ptr, c_state_size): with a
\* positive count the arrays are made.  With a count <= 0 the request is for
\* no bytes or for a huge number of them: the run either goes on or ends in
\* the allocator.
AllocOutcomes(n) == IF n > 0 THEN {TRUE} ELSE {TRUE, FALSE}

setup_parameters ==
    /\ pc = "setup_parameters"
    /\ IF BuildsArrays(gp, t_reader)
       THEN \E made \in AllocOutcomes(gp.mp.c_state_size) :
               IF made
               THEN /\ gp' = [gp EXCEPT !.inp =
                                 [adapt_lr |-> FSCALE, init_epoch |-> 0,
                                  built |-> TRUE,
                                  rows |-> gp.mp.c_state_size]]
                    /\ pc' = "check_parameters"
                    /\ UNCHANGED status
               ELSE /\ gp' = [gp EXCEPT !.inp.adapt_lr = FSCALE,
                                        !.inp.init_epoch = 0]
                    /\ Exit("EXIT_FAILURE", "cannot allocate memory",
                            "setup_parameters")
       ELSE /\ gp' = [gp EXCEPT !.inp.adapt_lr = FSCALE, !.inp.init_epoch = 0]
            /\ pc' = "check_parameters"
            /\ UNCHANGED status
    /\ UNCHANGED <<nopts, t_reader, io, hist, run>>

\* ---------------------------------------------------------- check_parameters

M_seed == "seed for random number generator not in valid range: x >= 1 (integer)"
M_rho == "learning rate not in valid range: x >= 0 (float)"
M_momentum == "learning momentum not in valid range: x >= 0 (float)"
M_c_state_size == "number of context neurons must be greater than zero."
M_rep_init_size ==
    "number of representative points of initial state must be greater than zero."
M_delay_length ==
    "time delay in a self-feedback not in valid range: x > 0 (integer)"
M_output_type ==
    "type of output function must be 0(tanh) or 1(softmax activation function)"
M_prior_strength ==
    "effect of the normal prior distribution not in valid range: x >= 0 (float)"
M_rep_init_variance ==
    "variance for representative points of initial state not in valid range: x >= 0 (float)"
M_lambda == "`lambda' not in valid range: x >= 0 (float)"
M_alpha == "`alpha' not in valid range: x >= 0 (float)"
M_truncate_length == "`truncate_length' not in valid range: x >= 0 (integer)"
M_block_length == "`block_length' not in valid range: x >= 0 (integer)"
M_divide_num == "`divide_num' not in valid range: x >= 1 (integer)"
M_empty == "training data is empty."

\* (mutant) the data is called empty although an input file was given.
DataIsEmpty_IgnoresLoadFile(g, t) == t.num = 0

\* The last check: no training data and no input file to restart from.
DataIsEmpty(g, t) == t.num = 0 /\ strlen(g.iop.load_filename) = 0

\* (mutant) delay_length = 0 passes, and momentum is checked before rho.
FirstFailure_Slips(g, t) ==
    IF IsZero(g.mp.seed) THEN M_seed
    ELSE IF g.mp.momentum < 0 THEN M_momentum
    ELSE IF g.mp.rho < 0 THEN M_rho
    ELSE IF g.mp.c_state_size <= 0 THEN M_c_state_size
    ELSE IF g.mp.rep_init_size <= 0 THEN M_rep_init_size
    ELSE IF g.mp.delay_length < 0 THEN M_delay_length
    ELSE IF g.mp.output_type # 0 /\ g.mp.output_type # 1 THEN M_output_type
    ELSE IF g.mp.prior_strength < 0 THEN M_prior_strength
    ELSE IF g.mp.rep_init_variance <= 0 THEN M_rep_init_variance
    ELSE IF g.mp.lambda < 0 THEN M_lambda
    ELSE IF g.mp.alpha < 0 THEN M_alpha
    ELSE IF g.ap.truncate_length < 0 THEN M_truncate_length
    ELSE IF g.ap.block_length < 0 THEN M_block_length
    ELSE IF g.ap.divide_num <= 0 THEN M_divide_num
    ELSE IF DataIsEmpty(g, t) THEN M_empty
    ELSE ""

\* The message of the first check that fails, in the order of the code, or
\* "" when every check passes.  seed is an unsigned long: seed <= 0 is
\* seed == 0.
FirstFailure(g, t) ==
    IF IsZero(g.mp.seed) THEN M_seed
    ELSE IF g.mp.rho < 0 THEN M_rho
    ELSE IF g.mp.momentum < 0 THEN M_momentum
    ELSE IF g.mp.c_state_size <= 0 THEN M_c_state_size
    ELSE IF g.mp.rep_init_size <= 0 THEN M_rep_init_size
    ELSE IF g.mp.delay_length <= 0 THEN M_delay_length
    ELSE IF g.mp.output_type # 0 /\ g.mp.output_type # 1 THEN M_output_type
    ELSE IF g.mp.prior_strength < 0 THEN M_prior_strength
    ELSE IF g.mp.rep_init_variance <= 0 THEN M_rep_init_variance
    ELSE IF g.mp.lambda < 0 THEN M_lambda
    ELSE IF g.mp.alpha < 0 THEN M_alpha
    ELSE IF g.ap.truncate_length < 0 THEN M_truncate_length
    ELSE IF g.ap.block_length < 0 THEN M_block_length
    ELSE IF g.ap.divide_num <= 0 THEN M_divide_num
    ELSE IF DataIsEmpty(g, t) THEN M_empty
    ELSE ""

check_parameters ==
    /\ pc = "check_parameters"
    /\ IF FirstFailure(gp, t_reader) # ""
       THEN Exit("EXIT_FAILURE", FirstFailure(gp, t_reader), "check_parameters")
       ELSE pc' = "training_main" /\ UNCHANGED status
    /\ UNCHANGED <<nopts, gp, t_reader, io, hist, run>>

\* ------------------------------------------------------------- training_main

\* training_main(&gp, &t_reader) runs, and main returns EXIT_SUCCESS.
training_main ==
    /\ pc = "training_main"
    /\ pc' = "done"
    /\ status' = [code |-> "EXIT_SUCCESS", msg |-> status.msg, at |-> "main"]
    /\ UNCHANGED <<nopts, gp, t_reader, io, hist, run>>

\* ------------------------------------------------------------ specifications

Next ==
    \/ read_options
    \/ read_config_file
    \/ read_config_file_eof
    \/ setup_target
    \/ setup_parameters
    \/ check_parameters
    \/ training_main

Init == InitOf("main")
InitCheck == InitOf("check")
InitInterval == InitOf("interval")
InitSeedRuns == InitOf("seed")
InitConfig == InitOf("config")
InitSwitch == InitOf("switch")

\* Runs from the command line, with every option letter.
Spec == Init /\ [][Next]_vars
\* Runs that set the values check_parameters reads.
SpecCheck == InitCheck /\ [][Next]_vars
\* Runs that set the print intervals.
SpecInterval == InitInterval /\ [][Next]_vars
\* Runs that set the seed, or leave it as init_parameters computed it.
SpecSeed == InitSeedRuns /\ [][Next]_vars
\* Runs that read config files given as text.
SpecConfig == InitConfig /\ [][Next]_vars
\* Runs that set the switches.
SpecSwitch == InitSwitch /\ [][Next]_vars

\* ------------------------------------------------------- what a run has done

\* training_main has been called.
Called == pc \in {"training_main", "done"}

\* The run ended inside function f.
ExitedAt(f) == pc = "exit" /\ status.at = f

\* setup_target has run (to its end, or to an exit of its own).
SetupTargetRan ==
    \/ pc \in {"setup_parameters", "check_parameters", "training_main", "done"}
    \/ ExitedAt("setup_target")
    \/ ExitedAt("setup_parameters")
    \/ ExitedAt("check_parameters")

\* setup_target has returned.
SetupTargetReturned == SetupTargetRan /\ ~ExitedAt("setup_target")

\* check_parameters has run.
CheckRan == Called \/ ExitedAt("check_parameters")

LoadGiven == strlen(gp.iop.load_filename) # 0

\* ------------------------------------------------------------------- claims

\* The range conditions as C1 lists them, in its order, and the message
\* that names each.
Violation(i) ==
    CASE i = 1 -> IsZero(gp.mp.seed)
      [] i = 2 -> gp.mp.rho < 0
      [] i = 3 -> gp.mp.momentum < 0
      [] i = 4 -> gp.mp.c_state_size <= 0
      [] i = 5 -> gp.mp.rep_init_size <= 0
      [] i = 6 -> gp.mp.delay_length <= 0
      [] i = 7 -> gp.mp.output_type \notin {0, 1}
      [] i = 8 -> gp.mp.prior_strength < 0
      [] i = 9 -> gp.mp.rep_init_variance <= 0
      [] i = 10 -> gp.mp.lambda < 0
      [] i = 11 -> gp.mp.alpha < 0
      [] i = 12 -> gp.ap.truncate_length < 0
      [] i = 13 -> gp.ap.block_length < 0
      [] i = 14 -> gp.ap.divide_num <= 0
      [] i = 15 -> t_reader.num = 0 /\ ~LoadGiven

MessageOf ==
    <<M_seed, M_rho, M_momentum, M_c_state_size, M_rep_init_size,
      M_delay_length, M_output_type, M_prior_strength, M_rep_init_variance,
      M_lambda, M_alpha, M_truncate_length, M_block_length, M_divide_num,
      M_empty>>

Violated == {i \in 1..15 : Violation(i)}

C2_FullyValidated ==
    Called =>
        /\ Violated = {}
        /\ gp.mp.epoch_size >= 0
        /\ gp.ap.lyapunov_spectrum_size > 0
        /\ gp.ap.threshold_period > 0

\* C4, as stated: when no target file is named, the training examples are
\* read from the standard input, -i or not.
C4_StdinWheneverNoTargets ==
    (SetupTargetRan /\ io.targets = <<>>) => io.stdin_read

\* C4, amended: when no target file is named, the standard input is read
\* exactly when no input file was given with -i / load_file; it is never
\* read when target files are named.
C4_StdinUnlessLoadFile ==
    SetupTargetRan =>
        /\ io.targets = <<>> => (io.stdin_read <=> ~LoadGiven)
        /\ io.targets # <<>> => ~io.stdin_read

\* C4 witness: a run without targets and without -i took its training data
\* from the standard input.
C4_Witness ==
    /\ SetupTargetReturned
    /\ io.targets = <<>>
    /\ ~LoadGiven
    /\ io.stdin_read
    /\ t_reader.num > 0

\* s is the start of t.
IsPrefix(s, t) == Len(s) <= Len(t) /\ \A i \in 1..Len(s) : s[i] = t[i]

\* C5: with -i and no targets nothing is read as training data, no array is
\* built from the option strings, the run is not rejected as empty, and it
\* ends only in training_main or in the rejection of a range; with -i and
\* targets the named files are read in command-line order, all of them once
\* setup_target has returned.
C5_RestartFromLoadFile ==
    /\ (SetupTargetRan /\ LoadGiven /\ io.targets = <<>>) =>
          /\ ~io.stdin_read
          /\ io.files_read = <<>>
          /\ t_reader.num = 0
          /\ ~gp.inp.built
          /\ status.msg # M_empty
          /\ pc = "exit" =>
                /\ status.at = "check_parameters"
                /\ \E i \in 1..14 : Violation(i)
    /\ (SetupTargetRan /\ LoadGiven /\ io.targets # <<>>) =>
          /\ ~io.stdin_read
          /\ IsPrefix(io.files_read, io.targets)
          /\ SetupTargetReturned => io.files_read = io.targets

\* C5 witness: a run with -i and no targets went through training_main.
C5_Witness ==
    /\ pc = "done"
    /\ LoadGiven
    /\ io.targets = <<>>
    /\ t_reader.num = 0

\* The value a per-stream setting of field f with argument arg stores.
StoredBy(f, arg) == IF f = "use_logscale_interval" THEN 1 ELSE atol(arg)

\* C6: every field of every stream's interval holds the value of the last
\* per-stream setting of that field if there was one, and the current global
\* default otherwise.
C6_StreamIntervals ==
    \A s \in Streams : \A f \in Fields :
        gp.iop.interval_for[s].val[f] =
            IF hist[s][f].set
            THEN StoredBy(f, hist[s][f].arg)
            ELSE gp.iop.default_interval.val[f]

\* C6 witness: a stream whose interval was set for it keeps that value
\* although the global interval has been set to another one, which a stream
\* without a setting of its own has taken.
C6_Witness ==
    \E s, u \in Streams :
        /\ hist[s]["interval"].set
        /\ ~hist[u]["interval"].set
        /\ gp.iop.default_interval.val["interval"] # PRINT_INTERVAL
        /\ gp.iop.interval_for[s].val["interval"]
              # gp.iop.default_interval.val["interval"]
        /\ gp.iop.interval_for[u].val["interval"]
              = gp.iop.default_interval.val["interval"]

\* The run ended on -v or -h.
VersionOrHelp ==
    /\ status.at = "read_options"
    /\ status.msg \in {"rnn-learn version", "rnn-learn  - an implementation"}

\* C7: a run in which -v or -h is processed has exited with a success
\* status, has read neither a target file nor the standard input and has
\* not called training_main.
C7_VersionHelpExit ==
    VersionOrHelp =>
        /\ pc = "exit"
        /\ status.code = "EXIT_SUCCESS"
        /\ ~io.stdin_read
        /\ io.files_read = <<>>
        /\ ~Called

\* C7 witness: -v or -h ended a run whose earlier options had set a value
\* that check_parameters rejects.
C7_Witness ==
    /\ VersionOrHelp
    /\ pc = "exit"
    /\ \E i \in 1..14 : Violation(i)

\* C8: a run that read_options ends on a letter it does not handle has a
\* failure exit status.
C8_MalformedIsFailure ==
    (ExitedAt("read_options") /\ ~VersionOrHelp) =>
        status.code = "EXIT_FAILURE"

\* C9: setup_parameters has sized the arrays by c_state_size and parsed the
\* option strings only if check_parameters has accepted the configuration.
C9_ValidatedBeforeUse == gp.inp.built => Called

\* The valid range that the message of check i states, applied to the value
\* the check reads.
InStatedRange(i) ==
    CASE i = 1 -> ~IsZero(gp.mp.seed)
      [] i = 2 -> gp.mp.rho >= 0
      [] i = 3 -> gp.mp.momentum >= 0
      [] i = 6 -> gp.mp.delay_length > 0
      [] i = 8 -> gp.mp.prior_strength >= 0
      [] i = 9 -> gp.mp.rep_init_variance >= 0
      [] i = 10 -> gp.mp.lambda >= 0
      [] i = 11 -> gp.mp.alpha >= 0
      [] i = 12 -> gp.ap.truncate_length >= 0
      [] i = 13 -> gp.ap.block_length >= 0
      [] i = 14 -> gp.ap.divide_num >= 1

WithStatedRange == {1, 2, 3, 6, 8, 9, 10, 11, 12, 13, 14}

\* C10: a value is rejected by a range check exactly when it is outside the
\* valid range the check's message states.
C10_RejectedIsComplement ==
    /\ \A i \in WithStatedRange :
          (ExitedAt("check_parameters") /\ status.msg = MessageOf[i]) =>
              ~InStatedRange(i)
    /\ Called => \A i \in WithStatedRange : InStatedRange(i)

\* 0 < x < 4294967296 = 2^32, for an unsigned long x.
InSeedRange(x) == ~IsZero(x) /\ x[3] = 0 /\ x[4] = 0

\* C11: in every run that reaches training_main the seed satisfies
\* 0 < seed < 4294967296, whether init_parameters computed it or -s / the
\* seed option stored it.
C11_SeedInRange == Called => InSeedRange(gp.mp.seed)

\* The part of a config-file line before its comment and its newline.
BodyOf(text) ==
    LET cut == strpbrk(text, {"#", "\n"}, 1)
    IN  IF cut = 0 THEN text ELSE SubSeq(text, 1, cut - 1)

\* word is the name of an option of opt_info with has_arg = 1.
RequiresArgument(word) ==
    \E e \in Spelled :
        /\ e.text = word
        /\ IF e.for = "" THEN e.name \in HasArgNames
           ELSE StreamOptHasArg(e.name)

\* The line names an option that requires an argument and has no '='.
NoEqualsSign(text) ==
    /\ strchr(BodyOf(text), "=") = 0
    /\ RequiresArgument(strip(BodyOf(text), " "))

\* The line names an option that requires an argument, and its '=' is
\* followed only by spaces up to the comment or the end of the line.
NothingAfterEquals(text) ==
    LET body == BodyOf(text)
        eq == strchr(body, "=")
    IN  /\ eq # 0
        /\ RequiresArgument(strip(SubSeq(body, 1, eq - 1), " "))
        /\ \A i \in (eq + 1)..Len(body) : body[i] = " "

SuppliesNoArgument(text) ==
    text # NULL /\ (NoEqualsSign(text) \/ NothingAfterEquals(text))

\* A turn of the getline loop of read_config_file.
ReadsLine == pc = "read_config_file" /\ nopts' = nopts + 1

\* C12: a config-file line that names an option requiring an argument and
\* supplies none (no '=', or an '=' followed only by spaces or a comment)
\* produces the warning and leaves every configuration field unchanged.
C12_NoArgumentNoEffect ==
    [][(ReadsLine /\ SuppliesNoArgument(io'.config_line)) =>
           (gp' = gp /\ status'.msg = M_requires_argument)]_vars

\* The boolean switches of a configuration g, by name: the six of mp and
\* iop, the global use_logscale_interval, and the one of every stream.
SwitchNames ==
    {"use_adaptive_lr", "fixed_weight", "fixed_threshold", "fixed_tau",
     "fixed_init_c_state", "verbose", "use_logscale_interval"} \cup Streams

SwitchOf(g, n) ==
    CASE n = "use_adaptive_lr" -> g.mp.use_adaptive_lr
      [] n = "fixed_weight" -> g.mp.fixed_weight
      [] n = "fixed_threshold" -> g.mp.fixed_threshold
      [] n = "fixed_tau" -> g.mp.fixed_tau
      [] n = "fixed_init_c_state" -> g.mp.fixed_init_c_state
      [] n = "verbose" -> g.iop.verbose
      [] n = "use_logscale_interval" ->
            g.iop.default_interval.val["use_logscale_interval"]
      [] n \in Streams -> g.iop.interval_for[n].val["use_logscale_interval"]

\* C13: every boolean switch starts at 0 and, once it is 1, stays 1 through
\* every later command-line option and config-file line; so a stream whose
\* use_logscale_interval is 1 is never given linear spacing again.
C13_SwitchesMonotone ==
    /\ \A n \in SwitchNames : SwitchOf(gp, n) = 0
    /\ [][\A n \in SwitchNames :
              /\ SwitchOf(gp', n) \in {0, 1}
              /\ SwitchOf(gp, n) = 1 => SwitchOf(gp', n) = 1]_vars

\* C13 witness: a run whose config file held the global
\* use_logscale_interval, use_logscale_interval_for_<stream> = 0 for one
\* stream and fixed_weight; that stream has logarithmic spacing and the
\* weights are fixed.
C13_Witness ==
    \E f \in Streams :
        /\ hist[f]["use_logscale_interval"].set
        /\ hist[f]["use_logscale_interval"].arg = A_0
        /\ SwitchOf(gp, "use_logscale_interval") = 1
        /\ SwitchOf(gp, "fixed_weight") = 1
        /\ SwitchOf(gp, f) = 1

====
